---------------------------- MODULE Spec2Model ----------------------------
(***************************************************************************)
(* A model of the four scripts of jxnl/fastllm:                            *)
(*   applications/finetune-quora-embeddings/benchmark.py   (SpecBench)     *)
(*   applications/embeddings-modal/dataset.py              (SpecDataset)   *)
(*   applications/affine-finetune-embeddings/model.py      (SpecSim)       *)
(*   applications/sentence-transformers-ft/finetune.py     (SpecFinetune)  *)
(* The scripts are independent entry points; each has its own              *)
(* specification over its own variables.                                   *)
(***************************************************************************)
EXTENDS Integers, Sequences, FiniteSets, TLC

VARIABLES
    \* ---- benchmark.py ----
    test_dataset,       \* dataset["test"]: rows [s1, s2] = row["questions"]["text"]
    main_pc,            \* position of main()
    invoked,            \* model name -> number of remote invocations started
    res,                \* main's res dict: model name -> evals
    results_json,       \* the file results.json
    mteb_out,           \* model name -> outcome of its benchmark_mteb_model container
    next_output,        \* index of the next output main takes from .map()
    harness,            \* which async benchmark function is running
    h_pc,               \* position of that benchmark function
    batch_size,         \* its batch_size local
    permits,            \* the value its Semaphore was constructed with
    row_idx,            \* get_unique_sentences: rows consumed so far
    seen,               \* get_unique_sentences: the set seen
    batch,              \* get_unique_sentences: the list batch
    sentences,          \* the batches yielded so far (one coroutine each)
    sentence_to_embedding_map,  \* the dict passed as sentence_to_id_mapping
    sem_value,          \* Semaphore._value
    waiters,            \* Semaphore._waiters, in FIFO order
    task_pc,            \* per embed_text coroutine: its position
    gather_exc,         \* the first exception of a task, which gather re-raises
    task_res,           \* per embed_text coroutine: the list it returned
    completed,          \* the coroutines that finished, in the order they did
    api_calls,          \* per embed_text coroutine: embedding requests sent
    gather_res,         \* res, the value of asyncio.gather
    flattened_res,      \* flattened_res
    pair_embeddings,    \* per row: sentence_pairs_embedding_1 and _2
    \* ---- dataset.py ----
    dataset,            \* the train split: the items' texts, in order
    feature_flag,       \* FEATURE_FLAG
    ds_pc,              \* position of main()
    ds_exc,             \* the exception main ended with
    item_idx,           \* items consumed by the running loop
    batch_texts,        \* process_dataset_batch.batch_texts
    embeddings,         \* the list embeddings of the running process_dataset_*
    requests,           \* the texts of every POST sent to the endpoint, in order
    main_embeddings,    \* main's embeddings: what process_dataset_* returned
    saved,              \* what save_to_excel was called with, and EXCEL_FILE
    \* ---- model.py ----
    matrix,             \* SimilarityModel.matrix
    use_relu,           \* SimilarityModel.use_relu
    dropout_fraction,   \* SimilarityModel.dropout_fraction, in percent
    sim_op,             \* the method of SimilarityModel that is running
    sim_out,            \* what that method computed
    \* ---- finetune.py ----
    ft_pc,              \* position of finetune()
    epochs,             \* the epochs argument
    ft_model,           \* model: whether it has the dense layer, epochs trained
    csv_file,           \* evaluator.csv_file
    ft_evals,           \* every run of the evaluator, in order
    pre_train_eval,     \* pre_train_eval
    post_train_eval,    \* post_train_eval
    ft_return           \* the value finetune returned

benchVars == <<test_dataset, main_pc, invoked, res, results_json, mteb_out,
               next_output, harness, h_pc, batch_size, permits, row_idx, seen,
               batch, sentences, sentence_to_embedding_map, sem_value, waiters,
               task_pc, gather_exc, task_res, completed, api_calls, gather_res,
               flattened_res, pair_embeddings>>

dsVars == <<dataset, feature_flag, ds_pc, ds_exc, item_idx, batch_texts,
            embeddings, requests, main_embeddings, saved>>

simVars == <<matrix, use_relu, dropout_fraction, sim_op, sim_out>>

ftVars == <<ft_pc, epochs, ft_model, csv_file, ft_evals, pre_train_eval,
            post_train_eval, ft_return>>

vars == <<benchVars, dsVars, simVars, ftVars>>

(***************************************************************************)
(* Bounds of the model.                                                    *)
(***************************************************************************)
MaxRows == 2          \* rows of the test split
NumSentences == 3     \* distinct question texts
MaxBatchSize == 2     \* batch_size is drawn from 1..MaxBatchSize
MaxPermits == 2       \* the Semaphore size is drawn from 1..MaxPermits
MaxCoord == 1         \* coordinates of an input embedding are in -MaxCoord..MaxCoord
MaxEpochs == 2        \* the epochs argument of finetune is in 0..MaxEpochs
MaxScore == 2         \* the evaluator's score is in 0..MaxScore
MaxItems == 102       \* items of the dataset.py train split

SentenceTexts == 1..NumSentences

(***************************************************************************)
(* benchmark.py: configuration                                             *)
(***************************************************************************)
MODELS == <<"BAAI/bge-base-en-v1.5", "llmrails/ember-v1", "thenlper/gte-large",
            "infgrad/stella-base-en-v2", "sentence-transformers/gtr-t5-large">>

METRICS == <<"accuracy", "precision", "recall">>

THRESHOLDS == <<"0.3", "0.5", "0.7">>

\* f"{metric_name} ({threshold})"
EvalName(metric_name, threshold) == metric_name \o " (" \o threshold \o ")"

\* The keys of EVALS: one per (threshold, metric) of itertools.product, then AUC.
EVALS ==
    { EvalName(METRICS[m], THRESHOLDS[t]) :
        m \in DOMAIN METRICS, t \in DOMAIN THRESHOLDS } \cup {"AUC"}

OPENAI_KEY == "text-embeddings-ada-v2"

COHERE_KEY == "embed-multilingual-v3.0"

ModelNames == {OPENAI_KEY, COHERE_KEY} \cup { MODELS[i] : i \in DOMAIN MODELS }

\* The vector length each harness asserts on.
OPENAI_DIM == 1536

COHERE_DIM == 1024

EmbeddingDim(h) == IF h = "openai" THEN OPENAI_DIM ELSE COHERE_DIM

\* The key main stores a harness's result under.
ResultKey(h) == IF h = "openai" THEN OPENAI_KEY ELSE COHERE_KEY

\* The scalar f(labels, predictions) of one metric for one model's predictions
\* is kept symbolic: it is named by the model and the metric that produced it.
Score(model, name) == <<model, name>>

\* {name: f(labels, predictions) for name, f in EVALS.items()}
EvalsOf(model) == [name \in EVALS |-> Score(model, name)]

(***************************************************************************)
(* benchmark.py: get_unique_sentences                                      *)
(***************************************************************************)
\* A row's two question texts.  Its is_duplicate flag only enters the labels the
\* metrics are computed from, which the model keeps symbolic (Score).
Rows == [s1 : SentenceTexts, s2 : SentenceTexts]

RECURSIVE SeqsUpTo(_, _)
SeqsUpTo(S, n) ==
    IF n = 0 THEN {<<>>}
    ELSE LET shorter == SeqsUpTo(S, n - 1)
         IN shorter \cup { Append(q, x) : q \in {p \in shorter : Len(p) = n - 1}, x \in S }

Range(q) == { q[i] : i \in DOMAIN q }

RECURSIVE RowTexts(_)
RowTexts(ds) ==
    IF ds = <<>> THEN <<>> ELSE <<Head(ds).s1, Head(ds).s2>> \o RowTexts(Tail(ds))

\* The elements of q, each kept at its first occurrence only.
FirstOccurrences(q) ==
    LET keep == { i \in DOMAIN q : \A j \in 1..(i - 1) : q[j] # q[i] }
        nth(k) == CHOOSE i \in keep : Cardinality({ j \in keep : j < i }) = k - 1
    IN [k \in 1..Cardinality(keep) |-> q[nth(k)]]

\* The test splits of up to MaxRows rows.  The code only compares and hashes the
\* texts, so a split is taken up to renaming: its k-th distinct text is k.
Datasets ==
    { ds \in SeqsUpTo(Rows, MaxRows) :
        LET first == FirstOccurrences(RowTexts(ds))
        IN \A k \in DOMAIN first : first[k] = k }

\* The generator's locals, as one value.
GenState == [seen |-> seen, batch |-> batch, out |-> sentences,
             map |-> sentence_to_embedding_map]

\* d[k] = v on a dict
DictSet(d, k, v) == [x \in DOMAIN d \cup {k} |-> IF x = k THEN v ELSE d[x]]

\* "if s not in seen: ..." for one sentence of a row, yield included.
VisitIdAfterAdd(g, s, bs) ==
    IF s \in g.seen THEN g
    ELSE LET m == DictSet(g.map, s, Cardinality(g.seen \cup {s}))
             b == Append(g.batch, s)
         IN IF Len(b) = bs
            THEN [seen |-> g.seen \cup {s}, batch |-> <<>>,
                  out |-> Append(g.out, b), map |-> m]
            ELSE [seen |-> g.seen \cup {s}, batch |-> b, out |-> g.out, map |-> m]

Visit(g, s, bs) ==
    IF s \in g.seen THEN g
    ELSE LET m == DictSet(g.map, s, Cardinality(g.seen))
             b == Append(g.batch, s)
         IN IF Len(b) = bs
            THEN [seen |-> g.seen \cup {s}, batch |-> <<>>,
                  out |-> Append(g.out, b), map |-> m]
            ELSE [seen |-> g.seen \cup {s}, batch |-> b, out |-> g.out, map |-> m]

harnessLocals == <<seen, batch, sentences, sentence_to_embedding_map, sem_value,
                   waiters, task_pc, gather_exc, task_res, completed, api_calls,
                   gather_res, flattened_res, pair_embeddings>>

mainVars == <<test_dataset, invoked, res, results_json, mteb_out, next_output>>

\* One iteration of "for row in test_dataset" (s1 then s2).
GenRow ==
    /\ h_pc = "gen"
    /\ row_idx < Len(test_dataset)
    /\ LET row == test_dataset[row_idx + 1]
           g == Visit(Visit(GenState, row.s1, batch_size), row.s2, batch_size)
       IN /\ seen' = g.seen
          /\ batch' = g.batch
          /\ sentences' = g.out
          /\ sentence_to_embedding_map' = g.map
    /\ row_idx' = row_idx + 1
    /\ UNCHANGED <<mainVars, main_pc, harness, h_pc, batch_size, permits,
                   sem_value, waiters, task_pc, gather_exc, task_res, completed,
                   api_calls, gather_res, flattened_res, pair_embeddings>>

\* What the generator yields after the loop: "if batch: yield batch".
FinalYield(out, b) == IF b # <<>> THEN Append(out, b) ELSE out

\* The loop is over: the last batch is yielded, the list of coroutines is
\* complete, and gather schedules one task per coroutine.
GenEnd ==
    /\ h_pc = "gen"
    /\ row_idx = Len(test_dataset)
    /\ sentences' = FinalYield(sentences, batch)
    /\ batch' = <<>>
    /\ task_pc' = [t \in DOMAIN sentences' |-> "created"]
    /\ gather_exc' = "none"
    /\ task_res' = [t \in DOMAIN sentences' |-> <<>>]
    /\ completed' = <<>>
    /\ api_calls' = [t \in DOMAIN sentences' |-> 0]
    /\ h_pc' = "gather"
    /\ UNCHANGED <<mainVars, main_pc, harness, batch_size, permits, row_idx,
                   seen, sentence_to_embedding_map, sem_value, waiters,
                   gather_res, flattened_res, pair_embeddings>>

(***************************************************************************)
(* benchmark.py: embed_text under the semaphore, and asyncio.gather        *)
(***************************************************************************)
Embedding(s, dim) == [text |-> s, dim |-> dim]

\* What the embeddings API may answer to one request for texts: an error, the
\* embeddings asked for, one embedding too few, or a vector of the wrong length.
Responses(h, texts) ==
    LET dim == EmbeddingDim(h)
    IN { [status |-> "error", data |-> <<>>],
         [status |-> "ok",
          data |-> [i \in DOMAIN texts |-> Embedding(texts[i], dim)]],
         [status |-> "ok",
          data |-> [i \in 1..(Len(texts) - 1) |-> Embedding(texts[i], dim)]],
         [status |-> "ok",
          data |-> [i \in DOMAIN texts |->
                      Embedding(texts[i], IF i = 1 THEN dim + 1 ELSE dim)]] }

\* The body of embed_text after the request: the two assertions and the return.
EmbedTextBody(h, texts, r) ==
    IF r.status # "ok" THEN [exc |-> "request_failed", res |-> <<>>]
    ELSE IF Len(r.data) # Len(texts) THEN [exc |-> "assert_count", res |-> <<>>]
    ELSE IF \E i \in DOMAIN r.data : r.data[i].dim # EmbeddingDim(h)
         THEN [exc |-> "assert_dim", res |-> <<>>]
    ELSE [exc |-> "none", res |-> r.data]

Tasks == DOMAIN task_pc

InFlight == { t \in Tasks : task_pc[t] = "inflight" }

\* co.embed is a blocking call: while it runs, the event loop runs nothing else.
EventLoopFree == ~(harness = "cohere" /\ InFlight # {})

TasksRunnable == h_pc \in {"gather", "raised"} /\ EventLoopFree

\* Semaphore.locked(): no permit left, or somebody is already queued.
Locked == sem_value = 0 \/ waiters # <<>>

\* Semaphore.release(): the permit goes to the first waiter not yet woken, or
\* back to the counter.
Sleeping == { i \in DOMAIN waiters : task_pc[waiters[i]] = "waiting" }

FirstSleeping == waiters[CHOOSE i \in Sleeping : \A j \in Sleeping : i <= j]

\* A release that wakes nobody.
ReleasedPcNoWake(pc) == pc

ReleasedPc(pc) ==
    IF Sleeping # {} THEN [pc EXCEPT ![FirstSleeping] = "woken"] ELSE pc

ReleasedValue == IF Sleeping # {} THEN sem_value ELSE sem_value + 1

RECURSIVE Without(_, _)
Without(q, x) ==
    IF q = <<>> THEN <<>>
    ELSE IF Head(q) = x THEN Tail(q)
    ELSE <<Head(q)>> \o Without(Tail(q), x)

\* A task runs embed_text up to its first suspension: it takes a permit and
\* sends its request, or queues on the semaphore.  Tasks start in the order
\* gather created them.
TaskStartNoSem(t) ==
    /\ TasksRunnable
    /\ task_pc[t] = "created"
    /\ \A u \in Tasks : u < t => task_pc[u] # "created"
    /\ task_pc' = [task_pc EXCEPT ![t] = "inflight"]
    /\ api_calls' = [api_calls EXCEPT ![t] = @ + 1]
    /\ UNCHANGED <<sem_value, waiters>>
    /\ UNCHANGED <<mainVars, main_pc, harness, h_pc, batch_size, permits,
                   row_idx, seen, batch, sentences, sentence_to_embedding_map,
                   gather_exc, task_res, completed, gather_res, flattened_res,
                   pair_embeddings>>

TaskStart(t) ==
    /\ TasksRunnable
    /\ task_pc[t] = "created"
    /\ \A u \in Tasks : u < t => task_pc[u] # "created"
    /\ IF ~Locked
       THEN /\ sem_value' = sem_value - 1
            /\ task_pc' = [task_pc EXCEPT ![t] = "inflight"]
            /\ api_calls' = [api_calls EXCEPT ![t] = @ + 1]
            /\ UNCHANGED waiters
       ELSE /\ waiters' = Append(waiters, t)
            /\ task_pc' = [task_pc EXCEPT ![t] = "waiting"]
            /\ UNCHANGED <<sem_value, api_calls>>
    /\ UNCHANGED <<mainVars, main_pc, harness, h_pc, batch_size, permits,
                   row_idx, seen, batch, sentences, sentence_to_embedding_map,
                   gather_exc, task_res, completed, gather_res, flattened_res,
                   pair_embeddings>>

\* A queued task that was handed a permit leaves the queue and sends its request.
TaskWake(t) ==
    /\ TasksRunnable
    /\ task_pc[t] = "woken"
    /\ waiters' = Without(waiters, t)
    /\ task_pc' = [task_pc EXCEPT ![t] = "inflight"]
    /\ api_calls' = [api_calls EXCEPT ![t] = @ + 1]
    /\ UNCHANGED <<mainVars, main_pc, harness, h_pc, batch_size, permits,
                   row_idx, seen, batch, sentences, sentence_to_embedding_map,
                   sem_value, gather_exc, task_res, completed, gather_res,
                   flattened_res, pair_embeddings>>

\* The request of task t is answered with r: the rest of embed_text runs, and
\* leaving "async with sem" releases the permit whether it returned or raised.
TaskRespond(t, r) ==
    /\ h_pc \in {"gather", "raised"}
    /\ task_pc[t] = "inflight"
    /\ LET out == EmbedTextBody(harness, sentences[t], r)
       IN /\ gather_exc' = IF gather_exc = "none" THEN out.exc ELSE gather_exc
          /\ task_res' = [task_res EXCEPT ![t] = out.res]
          /\ completed' = Append(completed, t)
          /\ task_pc' = [ReleasedPc(task_pc) EXCEPT
                           ![t] = IF out.exc = "none" THEN "done" ELSE "failed"]
    /\ sem_value' = ReleasedValue
    /\ UNCHANGED <<mainVars, main_pc, harness, h_pc, batch_size, permits,
                   row_idx, seen, batch, sentences, sentence_to_embedding_map,
                   waiters, api_calls, gather_res, flattened_res,
                   pair_embeddings>>

\* asyncio.gather returns once every task is done: the results, in the order of
\* the coroutines.
AllDone == \A t \in Tasks : task_pc[t] = "done"

GatherWhenAnyDone == Tasks = {} \/ \E t \in Tasks : task_pc[t] = "done"

GatherReady == AllDone

GatherReturnExceptions ==
    /\ h_pc = "gather"
    /\ EventLoopFree
    /\ \A t \in Tasks : task_pc[t] \in {"done", "failed"}
    /\ gather_res' = task_res
    /\ h_pc' = "flatten"
    /\ UNCHANGED <<mainVars, main_pc, harness, batch_size, permits, row_idx,
                   seen, batch, sentences, sentence_to_embedding_map, sem_value,
                   waiters, task_pc, gather_exc, task_res, completed, api_calls,
                   flattened_res, pair_embeddings>>

\* A gather that handed the results back in the order the tasks finished.
GatherReturnCompletionOrder ==
    /\ h_pc = "gather"
    /\ EventLoopFree
    /\ GatherReady
    /\ \A t \in Tasks : task_pc[t] # "failed"
    /\ gather_res' = [k \in DOMAIN completed |-> task_res[completed[k]]]
    /\ h_pc' = "flatten"
    /\ UNCHANGED <<mainVars, main_pc, harness, batch_size, permits, row_idx,
                   seen, batch, sentences, sentence_to_embedding_map, sem_value,
                   waiters, task_pc, gather_exc, task_res, completed, api_calls,
                   flattened_res, pair_embeddings>>

GatherReturn ==
    /\ h_pc = "gather"
    /\ EventLoopFree
    /\ GatherReady
    /\ \A t \in Tasks : task_pc[t] # "failed"
    /\ gather_res' = task_res
    /\ h_pc' = "flatten"
    /\ UNCHANGED <<mainVars, main_pc, harness, batch_size, permits, row_idx,
                   seen, batch, sentences, sentence_to_embedding_map, sem_value,
                   waiters, task_pc, gather_exc, task_res, completed, api_calls,
                   flattened_res, pair_embeddings>>

\* asyncio.gather re-raises the first exception of a task; the benchmark
\* function has no handler and neither has main.  The other tasks are not
\* cancelled by gather.
GatherRaise ==
    /\ h_pc = "gather"
    /\ EventLoopFree
    /\ \E t \in Tasks : task_pc[t] = "failed"
    /\ h_pc' = "raised"
    /\ main_pc' = "aborted"
    /\ UNCHANGED <<mainVars, harness, batch_size, permits, row_idx, seen, batch,
                   sentences, sentence_to_embedding_map, sem_value, waiters,
                   task_pc, gather_exc, task_res, completed, api_calls,
                   gather_res, flattened_res, pair_embeddings>>

(***************************************************************************)
(* benchmark.py: after the gather                                          *)
(***************************************************************************)
RECURSIVE Flatten(_)
\* [item for sublist in res for item in sublist]
Flatten(lists) ==
    IF lists = <<>> THEN <<>> ELSE Head(lists) \o Flatten(Tail(lists))

BenchFlatten ==
    /\ h_pc = "flatten"
    /\ flattened_res' = Flatten(gather_res)
    /\ h_pc' = "lookup"
    /\ UNCHANGED <<mainVars, main_pc, harness, batch_size, permits, row_idx,
                   seen, batch, sentences, sentence_to_embedding_map, sem_value,
                   waiters, task_pc, gather_exc, task_res, completed, api_calls,
                   gather_res, pair_embeddings>>

\* extract_unique_sentences: the ids of each row's two sentences (the labels
\* feed the symbolic scores only).
extract_unique_sentences(ds, mapping) ==
    [i \in DOMAIN ds |->
        [id1 |-> mapping[ds[i].s1], id2 |-> mapping[ds[i].s2]]]

\* embedding_layer(ids): row id of the table, ids counted from 0.
EmbeddingRow(table, id) == table[id + 1]

\* nn.Embedding.from_pretrained wants a two-dimensional table (an empty list
\* is not one), and a lookup wants every id to be a row of it.
BenchLookup ==
    /\ h_pc = "lookup"
    /\ LET pairs == extract_unique_sentences(test_dataset, sentence_to_embedding_map)
           valid == /\ flattened_res # <<>>
                    /\ \A i \in DOMAIN pairs :
                          /\ pairs[i].id1 + 1 \in DOMAIN flattened_res
                          /\ pairs[i].id2 + 1 \in DOMAIN flattened_res
       IN IF valid
          THEN /\ pair_embeddings' =
                     [i \in DOMAIN pairs |->
                        [e1 |-> EmbeddingRow(flattened_res, pairs[i].id1),
                         e2 |-> EmbeddingRow(flattened_res, pairs[i].id2)]]
               /\ h_pc' = "metrics"
               /\ UNCHANGED main_pc
          ELSE /\ h_pc' = "raised"
               /\ main_pc' = "aborted"
               /\ UNCHANGED pair_embeddings
    /\ UNCHANGED <<mainVars, harness, batch_size, permits, row_idx, seen, batch,
                   sentences, sentence_to_embedding_map, sem_value, waiters,
                   task_pc, gather_exc, task_res, completed, api_calls,
                   gather_res, flattened_res>>

(***************************************************************************)
(* benchmark.py: main                                                      *)
(***************************************************************************)
NoLocals ==
    /\ test_dataset' = <<>>
    /\ batch_size' = 0
    /\ permits' = 0
    /\ row_idx' = 0
    /\ seen' = {}
    /\ batch' = <<>>
    /\ sentences' = <<>>
    /\ sentence_to_embedding_map' = <<>>
    /\ sem_value' = 0
    /\ waiters' = <<>>
    /\ task_pc' = <<>>
    /\ gather_exc' = "none"
    /\ task_res' = <<>>
    /\ completed' = <<>>
    /\ api_calls' = <<>>
    /\ gather_res' = <<>>
    /\ flattened_res' = <<>>
    /\ pair_embeddings' = <<>>

\* main calls benchmark_openai.remote(), then benchmark_cohere_roc.remote().
\* The function loads the test split, builds its semaphore and the generator.
MainCall(h) ==
    /\ main_pc = h
    /\ h \in {"openai", "cohere"}
    /\ harness = "none"
    /\ invoked' = [invoked EXCEPT ![ResultKey(h)] = @ + 1]
    /\ harness' = h
    /\ h_pc' = "gen"
    /\ test_dataset' \in Datasets
    /\ batch_size' \in 1..MaxBatchSize
    /\ permits' \in 1..MaxPermits
    /\ sem_value' = permits'
    /\ UNCHANGED <<main_pc, res, results_json, mteb_out, next_output, row_idx,
                   seen, batch, sentences, sentence_to_embedding_map, waiters,
                   task_pc, gather_exc, task_res, completed, api_calls,
                   gather_res, flattened_res, pair_embeddings>>

\* Where main stores the value a harness returned.
StoreKeyAlwaysOpenAI(h) == OPENAI_KEY

StoreKey(h) == ResultKey(h)

\* The benchmark function returns its metrics and main stores them.
BenchReturn ==
    /\ h_pc = "metrics"
    /\ res' = DictSet(res, StoreKey(harness), EvalsOf(ResultKey(harness)))
    /\ main_pc' = IF harness = "openai" THEN "cohere" ELSE "mteb"
    /\ harness' = "none"
    /\ h_pc' = "idle"
    /\ NoLocals
    /\ UNCHANGED <<invoked, results_json, mteb_out, next_output>>

\* benchmark_mteb_model.map(MODELS, order_outputs=True): one container per model.
MainMap ==
    /\ main_pc = "mteb"
    /\ invoked' = [m \in DOMAIN invoked |->
                     invoked[m] + Cardinality({i \in DOMAIN MODELS : MODELS[i] = m})]
    /\ mteb_out' = [i \in DOMAIN MODELS |-> [status |-> "running", evals |-> <<>>]]
    /\ next_output' = 1
    /\ main_pc' = "zip"
    /\ UNCHANGED <<test_dataset, res, results_json, harness, h_pc, batch_size,
                   permits, row_idx, harnessLocals>>

\* The container of MODELS[i] ends: with its metrics, or with an exception.
MtebFinish(i, ok) ==
    /\ main_pc \in {"zip", "aborted"}
    /\ i \in DOMAIN mteb_out
    /\ mteb_out[i].status = "running"
    /\ mteb_out' = [mteb_out EXCEPT ![i] =
                      IF ok THEN [status |-> "done", evals |-> EvalsOf(MODELS[i])]
                      ELSE [status |-> "failed", evals |-> <<>>]]
    /\ UNCHANGED <<test_dataset, main_pc, invoked, res, results_json,
                   next_output, harness, h_pc, batch_size, permits, row_idx,
                   harnessLocals>>

\* The name zip pairs with the k-th output of the map.
ZipNameFirst(k) == MODELS[1]

ZipName(k) == MODELS[k]

\* One iteration of "for model_name, evals in zip(MODELS, ...)": outputs come in
\* the order of the inputs; a failed container's exception is raised in main.
MainTakeOutput ==
    /\ main_pc = "zip"
    /\ next_output \in DOMAIN MODELS
    /\ mteb_out[next_output].status # "running"
    /\ IF mteb_out[next_output].status = "done"
       THEN /\ res' = DictSet(res, ZipName(next_output), mteb_out[next_output].evals)
            /\ next_output' = next_output + 1
            /\ main_pc' = IF next_output = Len(MODELS) THEN "write" ELSE "zip"
       ELSE /\ main_pc' = "aborted"
            /\ UNCHANGED <<res, next_output>>
    /\ UNCHANGED <<test_dataset, invoked, results_json, mteb_out, harness, h_pc,
                   batch_size, permits, row_idx, harnessLocals>>

\* json.dump(res, f) into results.json
MainWrite ==
    /\ main_pc = "write"
    /\ results_json' = [exists |-> TRUE, content |-> res]
    /\ main_pc' = "tabulate"
    /\ UNCHANGED <<test_dataset, invoked, res, mteb_out, next_output, harness,
                   h_pc, batch_size, permits, row_idx, harnessLocals>>

\* The table: every row reads eval_perf[eval_name] for every key of EVALS.
MainTabulate ==
    /\ main_pc = "tabulate"
    /\ main_pc' = IF \A m \in DOMAIN res : EVALS \subseteq DOMAIN res[m]
                  THEN "done" ELSE "aborted"
    /\ UNCHANGED <<mainVars, harness, h_pc, batch_size, permits, row_idx,
                   harnessLocals>>

notBench == <<dsVars, simVars, ftVars>>

\* dataset.py is not running.
IdleDataset ==
    /\ dataset = <<>>
    /\ feature_flag = "BATCH"
    /\ ds_pc = "off"
    /\ ds_exc = "none"
    /\ item_idx = 0
    /\ batch_texts = <<>>
    /\ embeddings = <<>>
    /\ requests = <<>>
    /\ main_embeddings = [is_none |-> TRUE, value |-> <<>>]
    /\ saved = [called |-> FALSE, written |-> FALSE,
                data |-> [is_none |-> TRUE, value |-> <<>>]]

\* finetune.py is not running.
IdleFinetune ==
    /\ ft_pc = "off"
    /\ epochs = 0
    /\ ft_model = [dense |-> FALSE, trained |-> 0]
    /\ csv_file = ""
    /\ ft_evals = <<>>
    /\ pre_train_eval = [is_none |-> TRUE, value |-> 0]
    /\ post_train_eval = [is_none |-> TRUE, value |-> 0]
    /\ ft_return = [is_none |-> TRUE, value |-> 0]

\* model.py: no SimilarityModel was built.
IdleSim ==
    /\ matrix = <<>>
    /\ use_relu = FALSE
    /\ dropout_fraction = 0
    /\ sim_op = "off"
    /\ sim_out = <<>>

\* benchmark.py before main has done anything.
BenchFresh ==
    /\ invoked = [m \in ModelNames |-> 0]
    /\ res = <<>>
    /\ results_json = [exists |-> FALSE, content |-> <<>>]
    /\ mteb_out = <<>>
    /\ next_output = 0
    /\ harness = "none"
    /\ h_pc = "idle"
    /\ test_dataset = <<>>
    /\ batch_size = 0
    /\ permits = 0
    /\ row_idx = 0
    /\ seen = {}
    /\ batch = <<>>
    /\ sentences = <<>>
    /\ sentence_to_embedding_map = <<>>
    /\ sem_value = 0
    /\ waiters = <<>>
    /\ task_pc = <<>>
    /\ gather_exc = "none"
    /\ task_res = <<>>
    /\ completed = <<>>
    /\ api_calls = <<>>
    /\ gather_res = <<>>
    /\ flattened_res = <<>>
    /\ pair_embeddings = <<>>

InitBench == main_pc = "openai" /\ BenchFresh

\* benchmark.py is not running.
IdleBench == main_pc = "off" /\ BenchFresh

NextBench ==
    \/ (\E h \in {"openai", "cohere"} : MainCall(h)) /\ UNCHANGED notBench
    \/ GenRow /\ UNCHANGED notBench
    \/ GenEnd /\ UNCHANGED notBench
    \/ (\E t \in Tasks : TaskStart(t)) /\ UNCHANGED notBench
    \/ (\E t \in Tasks : TaskWake(t)) /\ UNCHANGED notBench
    \/ (\E t \in Tasks : \E r \in Responses(harness, sentences[t]) : TaskRespond(t, r)) /\ UNCHANGED notBench
    \/ GatherReturn /\ UNCHANGED notBench
    \/ GatherRaise /\ UNCHANGED notBench
    \/ BenchFlatten /\ UNCHANGED notBench
    \/ BenchLookup /\ UNCHANGED notBench
    \/ BenchReturn /\ UNCHANGED notBench
    \/ MainMap /\ UNCHANGED notBench
    \/ (\E i \in DOMAIN MODELS : \E ok \in BOOLEAN : MtebFinish(i, ok)) /\ UNCHANGED notBench
    \/ MainTakeOutput /\ UNCHANGED notBench
    \/ MainWrite /\ UNCHANGED notBench
    \/ MainTabulate /\ UNCHANGED notBench

BenchInit == InitBench /\ IdleDataset /\ IdleSim /\ IdleFinetune

SpecBench == BenchInit /\ [][NextBench]_vars

\* The event loop runs every callback that is ready, an API call is answered in
\* the end, and Modal and main carry on: a step that stays possible is taken.
FairBench == WF_vars(NextBench)

SpecBenchFair == BenchInit /\ [][NextBench]_vars /\ FairBench

(***************************************************************************)
(* Claims about benchmark.py, checked under SpecBench                      *)
(***************************************************************************)
HarnessLive == h_pc \in {"gather", "flatten", "lookup", "metrics", "raised"}

\* C1: at every moment the number of embedding API calls that were started and
\* have not returned is at most the size the harness's semaphore was built with.
C1_InFlightWithinLimiter == Cardinality(InFlight) <= permits

\* C1 witness: the OpenAI harness has as many calls in flight as it has permits
\* while a further batch waits on the semaphore.
C1_Witness ==
    /\ harness = "openai"
    /\ Cardinality(InFlight) = permits
    /\ \E t \in Tasks : task_pc[t] = "waiting"

AnyFailure == \E t \in Tasks : task_pc[t] = "failed"

\* C2: once a request or a response-shape assertion has failed, the benchmark
\* function never gets past the gather (it returns no metrics), main stores no
\* result for it and writes no results.json, and no batch, the failed one
\* included, is requested more than once.
C2_FailureAborts ==
    /\ \A t \in Tasks : api_calls[t] <= 1
    /\ AnyFailure =>
         /\ h_pc \in {"gather", "raised"}
         /\ main_pc \in {harness, "aborted"}
         /\ ResultKey(harness) \notin DOMAIN res
         /\ ~results_json.exists

\* C2 witness: main was aborted by a failed vector-length assertion while
\* another batch had been embedded successfully.
C2_Witness ==
    /\ main_pc = "aborted"
    /\ h_pc = "raised"
    /\ gather_exc = "assert_dim"
    /\ \E t \in Tasks : task_pc[t] = "failed" /\ api_calls[t] = 1
    /\ \E t \in Tasks : task_pc[t] = "done"

\* C3: the flattening and the metric computation happen only when every batch's
\* embedding call has completed: the gathered result has one list per batch and
\* the flattened table one embedding per distinct sentence.
C3_GatherWaitsForAll ==
    /\ h_pc \in {"flatten", "lookup", "metrics"} =>
         /\ AllDone
         /\ gather_res = task_res
         /\ \A t \in Tasks : Len(gather_res[t]) = Len(sentences[t])
    /\ h_pc \in {"lookup", "metrics"} => Len(flattened_res) = Cardinality(seen)

\* C3 witness: metrics are being computed in a run of the OpenAI harness that
\* had more batches than permits.
C3_Witness ==
    /\ harness = "openai"
    /\ h_pc = "metrics"
    /\ Len(sentences) > permits

\* C4: when main completes, every model was invoked exactly once, results.json
\* holds exactly one entry per model (7 of them), each entry is the result
\* computed for the model it is stored under, and each entry maps exactly the
\* 10 names of EVALS.
C4_OneResultPerModel ==
    main_pc = "done" =>
        /\ \A m \in ModelNames : invoked[m] = 1
        /\ results_json.exists
        /\ DOMAIN results_json.content = ModelNames
        /\ Cardinality(DOMAIN results_json.content) = 7
        /\ \A m \in ModelNames :
              /\ results_json.content[m] = EvalsOf(m)
              /\ DOMAIN results_json.content[m] = EVALS
        /\ Cardinality(EVALS) = 10

\* C4 witness: main has completed.
C4_Witness == main_pc = "done" /\ results_json.exists

\* C10: once get_unique_sentences is exhausted, the batches concatenated are the
\* distinct sentences in order of first occurrence, each sentence's id is its
\* position in that concatenation (ids 0..n-1), every batch but the last has
\* batch_size sentences and no batch is empty.
C10_UniqueSentences ==
    HarnessLive =>
        LET flat == Flatten(sentences)
        IN /\ flat = FirstOccurrences(RowTexts(test_dataset))
           /\ DOMAIN sentence_to_embedding_map = Range(flat)
           /\ \A i \in DOMAIN flat : sentence_to_embedding_map[flat[i]] = i - 1
           /\ \A k \in DOMAIN sentences :
                 /\ Len(sentences[k]) >= 1
                 /\ Len(sentences[k]) <= batch_size
                 /\ k < Len(sentences) => Len(sentences[k]) = batch_size

\* C10 witness: the generator is exhausted after a row whose two sentences are
\* equal, and the last batch is shorter than batch_size.
C10_Witness ==
    /\ h_pc = "gather"
    /\ Len(sentences) = 2
    /\ Len(sentences[2]) < batch_size
    /\ \E i \in DOMAIN test_dataset : test_dataset[i].s1 = test_dataset[i].s2

\* The permits of the harness's semaphore: those left in it and those held by a
\* coroutine inside "async with sem" or handed to a waiter that was woken.
PermitsHeld == Cardinality({ t \in Tasks : task_pc[t] \in {"inflight", "woken"} })

PermitsAccounted ==
    /\ sem_value \in 0..permits
    /\ sem_value + PermitsHeld = permits
    /\ (\A t \in Tasks : task_pc[t] \in {"done", "failed"}) => sem_value = permits

AllEmbedded ==
    /\ h_pc = "flatten"
    /\ AllDone
    /\ \A t \in Tasks : api_calls[t] = 1 /\ Len(task_res[t]) = Len(sentences[t])
    /\ sem_value = permits

\* C12: no permit is ever lost: whether embed_text returned, its request failed
\* or an assertion failed, the permits left plus the permits held add up to the
\* semaphore's size, and all are back once every coroutine has ended; and when
\* no call fails, a gather that started completes with every batch embedded
\* once, however many batches there are for the permits.
C12_NoLostPermitGatherCompletes ==
    /\ []PermitsAccounted
    /\ [](gather_exc = "none") => ((h_pc = "gather") ~> AllEmbedded)

\* C12 witness: the gather of benchmark_openai completed for more batches than
\* the semaphore has permits.
C12_Witness ==
    /\ harness = "openai"
    /\ AllEmbedded
    /\ Len(sentences) > permits

\* C11: whatever the order in which the embedding calls completed, row i of the
\* flattened table is the embedding the provider returned for the sentence whose
\* id is i, every id extract_unique_sentences produces is a row of the table,
\* and the two embeddings looked up for a test row are those of its sentences.
C11_LookupMatchesSentence ==
    /\ h_pc \in {"lookup", "metrics"} =>
          LET pairs == extract_unique_sentences(test_dataset, sentence_to_embedding_map)
          IN /\ Len(flattened_res) = Cardinality(seen)
             /\ \A s \in seen :
                   /\ sentence_to_embedding_map[s] + 1 \in DOMAIN flattened_res
                   /\ EmbeddingRow(flattened_res, sentence_to_embedding_map[s])
                         = Embedding(s, EmbeddingDim(harness))
             /\ \A i \in DOMAIN pairs :
                   /\ pairs[i].id1 \in 0..(Len(flattened_res) - 1)
                   /\ pairs[i].id2 \in 0..(Len(flattened_res) - 1)
    /\ h_pc = "metrics" =>
          /\ DOMAIN pair_embeddings = DOMAIN test_dataset
          /\ \A i \in DOMAIN test_dataset :
                /\ pair_embeddings[i].e1
                      = Embedding(test_dataset[i].s1, EmbeddingDim(harness))
                /\ pair_embeddings[i].e2
                      = Embedding(test_dataset[i].s2, EmbeddingDim(harness))

\* C11 witness: the lookup was done after a later batch's call had completed
\* before an earlier batch's.
C11_Witness ==
    /\ h_pc = "metrics"
    /\ Len(completed) >= 2
    /\ \E j, k \in DOMAIN completed : j < k /\ completed[j] > completed[k]
    /\ \E i \in DOMAIN test_dataset : test_dataset[i].s1 # test_dataset[i].s2

(***************************************************************************)
(* dataset.py                                                              *)
(***************************************************************************)
BATCH_SIZE == 20

\* process_dataset_linear stops at item index 100.
LINEAR_LIMIT == 100

None == [is_none |-> TRUE, value |-> <<>>]

Some(v) == [is_none |-> FALSE, value |-> v]

\* The embedding the endpoint computes for a text.
DsEmbedding(text) == [embedding_of |-> text]

\* [item["embedding"] for item in response.json()["data"]]: one per text sent.
EndpointData(texts) == [k \in DOMAIN texts |-> DsEmbedding(texts[k])]

\* A POST of texts and the status it was answered with.
Request(texts, ok) == [texts |-> texts, status |-> IF ok THEN "ok" ELSE "error"]

\* main: load the dataset and dispatch on FEATURE_FLAG.
DsMainStart ==
    /\ ds_pc = "start"
    /\ IF feature_flag = "BATCH" THEN ds_pc' = "batch" /\ UNCHANGED ds_exc
       ELSE IF feature_flag = "LINEAR" THEN ds_pc' = "linear" /\ UNCHANGED ds_exc
       ELSE ds_pc' = "raised" /\ ds_exc' = "ValueError"
    /\ UNCHANGED <<dataset, feature_flag, item_idx, batch_texts, embeddings,
                   requests, main_embeddings, saved>>

\* One iteration of process_dataset_batch's loop; a full batch is posted, and
\* raise_for_status raises on an error status.
BatchStepSwallow(ok) ==
    /\ ds_pc = "batch"
    /\ item_idx < Len(dataset)
    /\ LET texts == Append(batch_texts, dataset[item_idx + 1])
       IN IF Len(texts) = BATCH_SIZE
          THEN /\ requests' = Append(requests, Request(texts, ok))
               /\ embeddings' = IF ok THEN embeddings \o EndpointData(texts)
                                ELSE embeddings
               /\ batch_texts' = <<>>
               /\ item_idx' = item_idx + 1
               /\ UNCHANGED <<ds_pc, ds_exc>>
          ELSE /\ batch_texts' = texts
               /\ item_idx' = item_idx + 1
               /\ UNCHANGED <<requests, embeddings, ds_pc, ds_exc>>
    /\ UNCHANGED <<dataset, feature_flag, main_embeddings, saved>>

BatchStep(ok) ==
    /\ ds_pc = "batch"
    /\ item_idx < Len(dataset)
    /\ LET texts == Append(batch_texts, dataset[item_idx + 1])
       IN IF Len(texts) = BATCH_SIZE
          THEN /\ requests' = Append(requests, Request(texts, ok))
               /\ IF ok
                  THEN /\ embeddings' = embeddings \o EndpointData(texts)
                       /\ batch_texts' = <<>>
                       /\ item_idx' = item_idx + 1
                       /\ UNCHANGED <<ds_pc, ds_exc>>
                  ELSE /\ ds_pc' = "raised"
                       /\ ds_exc' = "HTTPError"
                       /\ batch_texts' = texts
                       /\ UNCHANGED <<embeddings, item_idx>>
          ELSE /\ batch_texts' = texts
               /\ item_idx' = item_idx + 1
               /\ UNCHANGED <<requests, embeddings, ds_pc, ds_exc>>
    /\ UNCHANGED <<dataset, feature_flag, main_embeddings, saved>>

\* The loop of process_dataset_batch is over.  The function has no return
\* statement, so main's embeddings is None; batch_texts is dropped as it is.
BatchEnd ==
    /\ ds_pc = "batch"
    /\ item_idx = Len(dataset)
    /\ main_embeddings' = None
    /\ ds_pc' = "save"
    /\ UNCHANGED <<dataset, feature_flag, ds_exc, item_idx, batch_texts,
                   embeddings, requests, saved>>

\* A loop without the break at index 100.
LinearStepPastLimit(ok) ==
    /\ ds_pc = "linear"
    /\ item_idx < Len(dataset)
    /\ LET texts == <<dataset[item_idx + 1]>>
       IN /\ requests' = Append(requests, Request(texts, ok))
          /\ IF ok
             THEN /\ embeddings' = Append(embeddings, EndpointData(texts))
                  /\ item_idx' = item_idx + 1
                  /\ UNCHANGED <<ds_pc, ds_exc>>
             ELSE /\ ds_pc' = "raised"
                  /\ ds_exc' = "HTTPError"
                  /\ UNCHANGED <<embeddings, item_idx>>
    /\ UNCHANGED <<dataset, feature_flag, batch_texts, main_embeddings, saved>>

\* One iteration of process_dataset_linear's loop: one request for one item.
LinearStep(ok) ==
    /\ ds_pc = "linear"
    /\ item_idx < Len(dataset)
    /\ ~(item_idx >= LINEAR_LIMIT)
    /\ LET texts == <<dataset[item_idx + 1]>>
       IN /\ requests' = Append(requests, Request(texts, ok))
          /\ IF ok
             THEN /\ embeddings' = Append(embeddings, EndpointData(texts))
                  /\ item_idx' = item_idx + 1
                  /\ UNCHANGED <<ds_pc, ds_exc>>
             ELSE /\ ds_pc' = "raised"
                  /\ ds_exc' = "HTTPError"
                  /\ UNCHANGED <<embeddings, item_idx>>
    /\ UNCHANGED <<dataset, feature_flag, batch_texts, main_embeddings, saved>>

\* The loop of process_dataset_linear ends (exhausted, or the break at index
\* 100) and the function returns embeddings.
LinearEnd ==
    /\ ds_pc = "linear"
    /\ (item_idx = Len(dataset) \/ item_idx >= LINEAR_LIMIT)
    /\ main_embeddings' = Some(embeddings)
    /\ ds_pc' = "save"
    /\ UNCHANGED <<dataset, feature_flag, ds_exc, item_idx, batch_texts,
                   embeddings, requests, saved>>

\* save_to_excel(embeddings): pandas has no attribute "dataframe", so the call
\* raises AttributeError before anything is written.
SaveToExcel ==
    /\ ds_pc = "save"
    /\ saved' = [called |-> TRUE, data |-> main_embeddings, written |-> FALSE]
    /\ ds_pc' = "raised"
    /\ ds_exc' = "AttributeError"
    /\ UNCHANGED <<dataset, feature_flag, item_idx, batch_texts, embeddings,
                   requests, main_embeddings>>

InitDataset ==
    /\ \E n \in 0..MaxItems : dataset = [i \in 1..n |-> i]
    /\ feature_flag \in {"BATCH", "LINEAR", "OTHER"}
    /\ ds_pc = "start"
    /\ ds_exc = "none"
    /\ item_idx = 0
    /\ batch_texts = <<>>
    /\ embeddings = <<>>
    /\ requests = <<>>
    /\ main_embeddings = None
    /\ saved = [called |-> FALSE, data |-> None, written |-> FALSE]

notDataset == <<benchVars, simVars, ftVars>>

NextDataset ==
    \/ DsMainStart /\ UNCHANGED notDataset
    \/ (\E ok \in BOOLEAN : BatchStep(ok)) /\ UNCHANGED notDataset
    \/ BatchEnd /\ UNCHANGED notDataset
    \/ (\E ok \in BOOLEAN : LinearStep(ok)) /\ UNCHANGED notDataset
    \/ LinearEnd /\ UNCHANGED notDataset
    \/ SaveToExcel /\ UNCHANGED notDataset

DatasetInit == InitDataset /\ IdleBench /\ IdleSim /\ IdleFinetune

SpecDataset == DatasetInit /\ [][NextDataset]_vars

(***************************************************************************)
(* Claims about dataset.py, checked under SpecDataset                      *)
(***************************************************************************)
FailedRequests == { k \in DOMAIN requests : requests[k].status = "error" }

\* C5: an HTTP error status on any request aborts the run: the error leaves the
\* processing function and main, the failed request is the last request ever
\* sent (nothing later, no retry), and save_to_excel is never called.
C5_HttpErrorAborts ==
    /\ FailedRequests # {} =>
         /\ FailedRequests = {Len(requests)}
         /\ ds_pc = "raised"
         /\ ds_exc = "HTTPError"
         /\ ~saved.called
    /\ \A j, k \in DOMAIN requests :
          j # k => Range(requests[j].texts) \cap Range(requests[k].texts) = {}

\* C5 witness: in BATCH mode the second batch's request was answered with an
\* error status while items remained unsent.
C5_Witness ==
    /\ feature_flag = "BATCH"
    /\ Len(requests) = 2
    /\ requests[2].status = "error"
    /\ item_idx + 1 < Len(dataset)

\* C6: in BATCH mode with no failed request, when main hands its result to
\* save_to_excel every item's text was sent in exactly one batch and the value
\* persisted is the list of one embedding per item, in dataset order.
C6_BatchPersistsAllEmbeddings ==
    (feature_flag = "BATCH" /\ saved.called /\ FailedRequests = {}) =>
        /\ \A i \in DOMAIN dataset :
              Cardinality({ k \in DOMAIN requests :
                              dataset[i] \in Range(requests[k].texts) }) = 1
        /\ ~saved.data.is_none
        /\ saved.data.value = [i \in DOMAIN dataset |-> DsEmbedding(dataset[i])]
        /\ saved.written

\* min(100, len(dataset))
LinearCount == IF Len(dataset) < LINEAR_LIMIT THEN Len(dataset) ELSE LINEAR_LIMIT

\* C13: in LINEAR mode the k-th request carries exactly the text of the k-th
\* item, no request is sent for an item at index 100 or later, and when
\* process_dataset_linear returns it has sent one request for each of the first
\* min(100, len(dataset)) items and returns one result per request, in order.
C13_LinearOneRequestPerItem ==
    feature_flag = "LINEAR" =>
        /\ Len(requests) <= LinearCount
        /\ \A k \in DOMAIN requests :
              /\ k - 1 < LINEAR_LIMIT
              /\ requests[k].texts = <<dataset[k]>>
        /\ \A k \in DOMAIN embeddings :
              /\ k \in DOMAIN requests
              /\ requests[k].status = "ok"
              /\ embeddings[k] = <<DsEmbedding(dataset[k])>>
        /\ ds_pc = "save" =>
              /\ Len(requests) = LinearCount
              /\ ~main_embeddings.is_none
              /\ Len(main_embeddings.value) = Len(requests)
              /\ \A k \in DOMAIN requests :
                    main_embeddings.value[k] = EndpointData(requests[k].texts)

\* C13 witness: process_dataset_linear returned for a dataset of more than 100
\* items, after 100 requests.
C13_Witness ==
    /\ feature_flag = "LINEAR"
    /\ ds_pc = "save"
    /\ Len(dataset) > LINEAR_LIMIT
    /\ Len(requests) = LINEAR_LIMIT

(***************************************************************************)
(* model.py: SimilarityModel                                               *)
(***************************************************************************)
\* The sizes the model is built with: SimilarityModel(embedding_size, n_dims, ...).
EMBEDDING_SIZE == 2

N_DIMS == 2

\* The values an entry of the matrix takes (xavier_uniform_ draws nonzero reals).
Weights == {-1, 1}

Matrices == [1..EMBEDDING_SIZE -> [1..N_DIMS -> Weights]]

\* One row of a batch of embeddings (the rows of a batch are treated alike).
Vectors == [1..EMBEDDING_SIZE -> (-MaxCoord)..MaxCoord]

\* dropout_fraction in percent: none, one half, all.
DropoutFractions == {0, 50, 100}

\* The elements F.dropout may keep: any choice, made afresh at every call.
Masks(p) ==
    IF p \in {0, 100} THEN {[i \in 1..EMBEDDING_SIZE |-> TRUE]}
    ELSE [1..EMBEDDING_SIZE -> BOOLEAN]

\* F.dropout(x, p): training defaults to True, so elements are zeroed with
\* probability p whatever the mode, and the kept ones are scaled by 1/(1-p).
Dropout(x, p, keep) ==
    IF p = 0 THEN x
    ELSE IF p = 100 THEN [i \in DOMAIN x |-> 0]
    ELSE [i \in DOMAIN x |-> IF keep[i] THEN x[i] * (100 \div (100 - p)) ELSE 0]

\* F.relu(m): a new tensor.
Relu(m) == [i \in DOMAIN m |-> [j \in DOMAIN m[i] |-> IF m[i][j] > 0 THEN m[i][j] ELSE 0]]

\* matrix = self.matrix if not self.use_relu else F.relu(self.matrix)
ProjectionMatrix == IF ~use_relu THEN matrix ELSE Relu(matrix)

RECURSIVE DotTo(_, _, _)
DotTo(a, b, n) == IF n = 0 THEN 0 ELSE a[n] * b[n] + DotTo(a, b, n - 1)

Dot(a, b) == DotTo(a, b, Len(a))

RECURSIVE ColumnTo(_, _, _, _)
ColumnTo(e, m, j, n) == IF n = 0 THEN 0 ELSE e[n] * m[n][j] + ColumnTo(e, m, j, n - 1)

\* e @ m
MatMul(e, m) == [j \in 1..N_DIMS |-> ColumnTo(e, m, j, Len(e))]

\* F.cosine_similarity(a, b) = a.b / max(|a| |b|, eps), kept exact as the dot
\* product and the two squared norms.
CosineSimilarity(a, b) == [dot |-> Dot(a, b), n1 |-> Dot(a, a), n2 |-> Dot(b, b)]

\* The similarity is 1: the vectors are nonzero and point the same way.
IsOne(c) == c.dot > 0 /\ c.dot * c.dot = c.n1 * c.n2

\* SimilarityModel.forward on one row, with the masks its two dropouts drew.
forwardRawSecond(e1, e2, keep1, keep2) ==
    CosineSimilarity(
        MatMul(Dropout(e1, dropout_fraction, keep1), ProjectionMatrix),
        MatMul(Dropout(e2, dropout_fraction, keep2), matrix))

forward(e1, e2, keep1, keep2) ==
    LET m == ProjectionMatrix
    IN CosineSimilarity(MatMul(Dropout(e1, dropout_fraction, keep1), m),
                        MatMul(Dropout(e2, dropout_fraction, keep2), m))

\* SimilarityModel.encode on one row.
encode(e, keep) == MatMul(Dropout(e, dropout_fraction, keep), ProjectionMatrix)

\* What a call of forward leaves: its inputs' being identical, and its value.
ForwardOut(e1, e2, keep1, keep2) ==
    [identical |-> e1 = e2, similarity |-> forward(e1, e2, keep1, keep2)]

\* model(embedding_1, embedding_2)
ForwardReluInPlace(e1, e2, keep1, keep2) ==
    /\ sim_op = "idle"
    /\ sim_out' = ForwardOut(e1, e2, keep1, keep2)
    /\ sim_op' = "forward"
    /\ matrix' = ProjectionMatrix
    /\ UNCHANGED <<use_relu, dropout_fraction>>

Forward(e1, e2, keep1, keep2) ==
    /\ sim_op = "idle"
    /\ sim_out' = ForwardOut(e1, e2, keep1, keep2)
    /\ sim_op' = "forward"
    /\ UNCHANGED <<matrix, use_relu, dropout_fraction>>

\* model.encode(embedding)
Encode(e, keep) ==
    /\ sim_op = "idle"
    /\ sim_out' = [identical |-> FALSE, projected |-> encode(e, keep)]
    /\ sim_op' = "encode"
    /\ UNCHANGED <<matrix, use_relu, dropout_fraction>>

\* training_step, validation_step and test_step: the similarity of the batch,
\* from which the loss and the logged metrics are computed.
Step(name, e1, e2, keep1, keep2) ==
    /\ sim_op = "idle"
    /\ sim_out' = ForwardOut(e1, e2, keep1, keep2)
    /\ sim_op' = name
    /\ UNCHANGED <<matrix, use_relu, dropout_fraction>>

\* After training_step returned the loss, the optimizer of configure_optimizers
\* updates the parameter: here, one entry moves by one step.
OptimizerStep(i, j, w) ==
    /\ sim_op = "training_step"
    /\ w # matrix[i][j]
    /\ matrix' = [matrix EXCEPT ![i][j] = w]
    /\ sim_op' = "idle"
    /\ sim_out' = <<>>
    /\ UNCHANGED <<use_relu, dropout_fraction>>

\* The caller has taken the value of forward, encode, validation_step or
\* test_step.
SimReturn ==
    /\ sim_op \in {"forward", "encode", "validation_step", "test_step"}
    /\ sim_op' = "idle"
    /\ sim_out' = <<>>
    /\ UNCHANGED <<matrix, use_relu, dropout_fraction>>

\* SimilarityModel.__init__: a randomly initialised matrix.
InitSim ==
    /\ matrix \in Matrices
    /\ use_relu \in BOOLEAN
    /\ dropout_fraction \in DropoutFractions
    /\ sim_op = "idle"
    /\ sim_out = <<>>

notSim == <<benchVars, dsVars, ftVars>>

NextSim ==
    \/ (\E e1, e2 \in Vectors : \E k1, k2 \in Masks(dropout_fraction) :
           Forward(e1, e2, k1, k2)) /\ UNCHANGED notSim
    \/ (\E e \in Vectors : \E k \in Masks(dropout_fraction) : Encode(e, k))
           /\ UNCHANGED notSim
    \/ (\E name \in {"training_step", "validation_step", "test_step"} :
           \E e1, e2 \in Vectors : \E k1, k2 \in Masks(dropout_fraction) :
              Step(name, e1, e2, k1, k2)) /\ UNCHANGED notSim
    \/ (\E i \in 1..EMBEDDING_SIZE : \E j \in 1..N_DIMS : \E w \in Weights :
           OptimizerStep(i, j, w)) /\ UNCHANGED notSim
    \/ SimReturn /\ UNCHANGED notSim

SimInit == InitSim /\ IdleBench /\ IdleDataset /\ IdleFinetune

SpecSim == SimInit /\ [][NextSim]_vars

(***************************************************************************)
(* Claims about model.py, checked under SpecSim                            *)
(***************************************************************************)
\* C7, as claimed: forward(x, x) is 1 for every x, every matrix, every
\* dropout_fraction and either use_relu.
C7_IdenticalGivesOne ==
    (sim_op = "forward" /\ sim_out.identical) => IsOne(sim_out.similarity)

\* C7, amended: with dropout_fraction 0, forward(x, x) is 1 whenever the
\* projection of x (by the matrix, after relu if use_relu) is not the zero vector.
C7_IdenticalGivesOneNoDropout ==
    (/\ sim_op = "forward"
     /\ sim_out.identical
     /\ dropout_fraction = 0
     /\ sim_out.similarity.n1 > 0) => IsOne(sim_out.similarity)

\* C7 witness: forward ran on identical inputs without dropout, with use_relu
\* and a matrix of mixed signs, and the projection was not zero.
C7_Witness ==
    /\ sim_op = "forward"
    /\ sim_out.identical
    /\ dropout_fraction = 0
    /\ use_relu
    /\ \E i \in DOMAIN matrix : \E j \in DOMAIN matrix[i] : matrix[i][j] < 0
    /\ sim_out.similarity.n1 > 0

\* C8: the matrix parameter changes only in a training step (the optimizer's
\* update after training_step); forward, encode, validation_step and test_step
\* leave it as it is, with use_relu too.
C8_MatrixChangesOnlyInTraining ==
    [][matrix' # matrix => sim_op = "training_step"]_vars

\* C8 witness: forward has run with use_relu on a matrix that has a negative
\* entry, which relu maps to 0.
C8_Witness ==
    /\ sim_op = "forward"
    /\ use_relu
    /\ Relu(matrix) # matrix

(***************************************************************************)
(* finetune.py: finetune                                                   *)
(***************************************************************************)
Scores == 0..MaxScore

PRE_TRAIN_CSV == "binary_classification_evaluation_pre_train" \o "_results.csv"

FIT_CSV == "binary_classification_evaluation" \o "_results.csv"

POST_TRAIN_CSV == "binary_classification_evaluation_post_train" \o "_results.csv"

NoScore == [is_none |-> TRUE, value |-> 0]

\* One run of the evaluator: the file it appends to (csv_file under the output
\* path it was given), the epochs the model had been trained for, its score.
Evaluation(by, file, trained, score) ==
    [by |-> by, file |-> file, trained |-> trained, score |-> score]

\* The dataset is loaded and split, the model and the evaluator are built.
FtSetup(use_dense_layer) ==
    /\ ft_pc = "setup"
    /\ ft_model' = [dense |-> use_dense_layer, trained |-> 0]
    /\ ft_pc' = "pre_eval"
    /\ UNCHANGED <<epochs, csv_file, ft_evals, pre_train_eval, post_train_eval,
                   ft_return>>

\* evaluator.csv_file = ..._pre_train_results.csv; pre_train_eval = evaluator(model, ...)
FtPreTrainEval(score) ==
    /\ ft_pc = "pre_eval"
    /\ csv_file' = PRE_TRAIN_CSV
    /\ ft_evals' = Append(ft_evals,
                          Evaluation("finetune", csv_file', ft_model.trained, score))
    /\ pre_train_eval' = [is_none |-> FALSE, value |-> score]
    /\ ft_pc' = "fit"
    /\ UNCHANGED <<epochs, ft_model, post_train_eval, ft_return>>

\* evaluator.csv_file = ..._results.csv; model.fit(...) starts.
FtFitStart ==
    /\ ft_pc = "fit"
    /\ csv_file' = FIT_CSV
    /\ ft_pc' = "fitting"
    /\ UNCHANGED <<epochs, ft_model, ft_evals, pre_train_eval, post_train_eval,
                   ft_return>>

\* One epoch of model.fit: the model is trained, then fit runs the evaluator.
FtFitEpoch(score) ==
    /\ ft_pc = "fitting"
    /\ ft_model.trained < epochs
    /\ ft_model' = [ft_model EXCEPT !.trained = @ + 1]
    /\ ft_evals' = Append(ft_evals,
                          Evaluation("fit", csv_file, ft_model'.trained, score))
    /\ UNCHANGED <<ft_pc, epochs, csv_file, pre_train_eval, post_train_eval,
                   ft_return>>

\* model.fit returns.
FtFitEnd ==
    /\ ft_pc = "fitting"
    /\ ft_model.trained = epochs
    /\ ft_pc' = "post_eval"
    /\ UNCHANGED <<epochs, ft_model, csv_file, ft_evals, pre_train_eval,
                   post_train_eval, ft_return>>

\* evaluator.csv_file = ..._post_train_results.csv; post_train_eval = evaluator(model, ...)
FtPostTrainEval(score) ==
    /\ ft_pc = "post_eval"
    /\ csv_file' = POST_TRAIN_CSV
    /\ ft_evals' = Append(ft_evals,
                          Evaluation("finetune", csv_file', ft_model.trained, score))
    /\ post_train_eval' = [is_none |-> FALSE, value |-> score]
    /\ ft_pc' = "return"
    /\ UNCHANGED <<epochs, ft_model, pre_train_eval, ft_return>>

\* A finetune that returned the score measured before training.
FtReturnPreTrain ==
    /\ ft_pc = "return"
    /\ ft_return' = pre_train_eval
    /\ ft_pc' = "done"
    /\ UNCHANGED <<epochs, ft_model, csv_file, ft_evals, pre_train_eval,
                   post_train_eval>>

\* return post_train_eval
FtReturn ==
    /\ ft_pc = "return"
    /\ ft_return' = post_train_eval
    /\ ft_pc' = "done"
    /\ UNCHANGED <<epochs, ft_model, csv_file, ft_evals, pre_train_eval,
                   post_train_eval>>

InitFinetune ==
    /\ ft_pc = "setup"
    /\ epochs \in 0..MaxEpochs
    /\ ft_model = [dense |-> FALSE, trained |-> 0]
    /\ csv_file = ""
    /\ ft_evals = <<>>
    /\ pre_train_eval = NoScore
    /\ post_train_eval = NoScore
    /\ ft_return = NoScore

notFinetune == <<benchVars, dsVars, simVars>>

NextFinetune ==
    \/ (\E d \in BOOLEAN : FtSetup(d)) /\ UNCHANGED notFinetune
    \/ (\E score \in Scores : FtPreTrainEval(score)) /\ UNCHANGED notFinetune
    \/ FtFitStart /\ UNCHANGED notFinetune
    \/ (\E score \in Scores : FtFitEpoch(score)) /\ UNCHANGED notFinetune
    \/ FtFitEnd /\ UNCHANGED notFinetune
    \/ (\E score \in Scores : FtPostTrainEval(score)) /\ UNCHANGED notFinetune
    \/ FtReturn /\ UNCHANGED notFinetune

FinetuneInit == InitFinetune /\ IdleBench /\ IdleDataset /\ IdleSim

SpecFinetune == FinetuneInit /\ [][NextFinetune]_vars

(***************************************************************************)
(* Claims about finetune.py, checked under SpecFinetune                    *)
(***************************************************************************)
\* C9: finetune evaluates before and after training, in that order: its first
\* evaluation is on the untrained model and precedes everything fit does, its
\* second follows the last epoch of fit, the two write to the pre_train and the
\* post_train file, both different from the file fit writes, and the value
\* returned is the score of the post-training evaluation.
C9_EvaluatesBeforeAndAfter ==
    /\ \A k \in DOMAIN ft_evals :
          /\ ft_evals[k].by = "fit" => (k > 1 /\ ft_evals[k].file = FIT_CSV)
          /\ (ft_evals[k].by = "finetune" /\ k = 1) =>
                (ft_evals[k].file = PRE_TRAIN_CSV /\ ft_evals[k].trained = 0)
          /\ (ft_evals[k].by = "finetune" /\ k > 1) =>
                /\ ft_evals[k].file = POST_TRAIN_CSV
                /\ ft_evals[k].trained = epochs
                /\ k = Len(ft_evals)
                /\ k = epochs + 2
    /\ ft_pc \in {"fit", "fitting", "post_eval", "return", "done"} =>
          (ft_evals # <<>> /\ ft_evals[1].by = "finetune" /\ ~pre_train_eval.is_none)
    /\ ft_pc \in {"setup", "pre_eval", "fit", "fitting", "post_eval"} =>
          post_train_eval.is_none
    /\ ft_pc \in {"return", "done"} => ~post_train_eval.is_none
    /\ ft_pc = "done" =>
          /\ Len(ft_evals) = epochs + 2
          /\ ft_evals[Len(ft_evals)].by = "finetune"
          /\ ~ft_return.is_none
          /\ ft_return.value = ft_evals[Len(ft_evals)].score
    /\ Cardinality({PRE_TRAIN_CSV, FIT_CSV, POST_TRAIN_CSV}) = 3

\* C9 witness: finetune has returned after a fit of two epochs whose pre- and
\* post-training scores differ.
C9_Witness ==
    /\ ft_pc = "done"
    /\ epochs = 2
    /\ Len(ft_evals) = 4
    /\ ft_evals[1].score # ft_evals[4].score

=============================================================================
